---- MODULE Spec2Model ----
(***************************************************************************)
(* A model of udev-rs: the reference-counted Context, the Enumerator and   *)
(* its Devices iterator, and the MonitorBuilder / MonitorSocket pair.      *)
(*                                                                         *)
(* Strings are sequences of bytes, byte 0 being NUL.  A C string is a      *)
(* byte sequence that ends with NUL; the foreign layer reads a C string up *)
(* to its first NUL.  Foreign objects (udev, udev_enumerate, udev_monitor) *)
(* carry the reference count libudev keeps for them; a Rust handle is a    *)
(* count of values that point at a foreign object.                         *)
(***************************************************************************)
EXTENDS Integers, Sequences, FiniteSets, TLC

VARIABLES
    udev_refs,      \* reference count of the foreign udev context (0: destroyed)
    contexts,       \* Context values held by the caller
    device_objs,    \* Device values held by the caller
    enumerates,     \* foreign udev_enumerate objects, by address
    enumerators,    \* Enumerator values held by the caller, per foreign object
    devices,        \* Devices iterators held by the caller, by slot
    monitors,       \* foreign udev_monitor objects, by address
    builders,       \* MonitorBuilder values held by the caller, per foreign object
    sockets,        \* MonitorSocket values held by the caller, per foreign object
    sysfs,          \* the device database: per syspath, presence and attribute value
    kernel_seq,     \* the sequence number of the last uevent the kernel sent
    last            \* what the last operation of the caller returned

vars == <<udev_refs, contexts, device_objs, enumerates, enumerators, devices,
          monitors, builders, sockets, sysfs, kernel_seq, last>>

----------------------------------------------------------------------------
(* Bounds of the model. *)

MaxContexts == 2
MaxDeviceObjs == 1
MaxEnumerators == 2
MaxDevices == 2
MaxFilters == 1
MaxSockets == 2
MaxQueue == 2
MaxSeq == 3
MaxGarbage == 1

----------------------------------------------------------------------------
(* Strings and the conversions of util.rs. *)

NUL == 0
EINVAL == 22
ENOMEM == 12

NULL == 0

Ok == [tag |-> "Ok", errno |-> 0]
Err(e) == [tag |-> "Err", errno |-> e]

\* The sample strings a caller passes: a plain one and one with an
\* embedded NUL.
Strings == {<<1>>, <<1, NUL, 2>>}

HasNul(s) == \E i \in 1..Len(s) : s[i] = NUL

\* The index of the first NUL of s (Len(s) + 1 when there is none).
RECURSIVE strlen_from(_, _)
strlen_from(s, i) ==
    IF i > Len(s) \/ s[i] = NUL THEN i - 1 ELSE strlen_from(s, i + 1)

\* What the foreign layer reads at a char pointer: the bytes before the
\* first NUL.
ptr_to_os_str_unchecked(ptr) == SubSeq(ptr, 1, strlen_from(ptr, 1))

ptr_to_os_str(ptr) ==
    IF ptr # <<>> THEN [some |-> TRUE, str |-> ptr_to_os_str_unchecked(ptr)]
    ELSE [some |-> FALSE, str |-> <<>>]

\* A mutant of os_str_to_cstring: the NUL check is lost, the bytes are
\* handed over as they are.
os_str_to_cstring_unchecked(s) == [res |-> Ok, cstr |-> Append(s, NUL)]

\* CString::new fails on any NUL byte; otherwise the bytes, NUL-terminated.
os_str_to_cstring(s) ==
    IF HasNul(s) THEN [res |-> Err(EINVAL), cstr |-> <<>>]
    ELSE [res |-> Ok, cstr |-> Append(s, NUL)]

\* A mutant of errno_to_result: only a positive status is an error.
errno_to_result_positive(errno) == IF errno > 0 THEN Err(errno) ELSE Ok

\* A mutant of errno_to_result: the status is not looked at.
errno_to_result_ignored(errno) == Ok

errno_to_result(errno) == IF errno = 0 THEN Ok ELSE Err(errno)

----------------------------------------------------------------------------
(* The device database the foreign layer reads. *)

\* The syspaths of the sample device tree; a parent's path is a proper
\* prefix of its child's.
Syspaths == {<<1>>, <<1, 1>>}

AttrValues == {<<1>>, <<2>>}

Subsystem(p) == IF Len(p) = 1 THEN <<2>> ELSE <<1>>
Sysname(p) == <<p[Len(p)]>>
Tags(p) == IF Len(p) > 1 THEN {<<1>>} ELSE {}
HasParent(p) == Len(p) > 1
Parent(p) == SubSeq(p, 1, Len(p) - 1)
IsAncestorOrSelf(a, p) == Len(a) <= Len(p) /\ SubSeq(p, 1, Len(a)) = a

\* A Device as the foreign layer builds it: a snapshot of the database
\* entry taken when it is built.
NoDevice == [syspath |-> <<>>, subsystem |-> <<>>, attr |-> <<>>,
             action |-> "", seqnum |-> 0]
Snapshot(p) == [syspath |-> p, subsystem |-> Subsystem(p), attr |-> sysfs[p].attr,
                action |-> "", seqnum |-> 0]

\* udev_device_new_from_syspath: null when no device is at the path.  A
\* null pointer is reported as the allocation error.
udev_device_new_from_syspath(cstr) ==
    LET p == ptr_to_os_str_unchecked(cstr)
    IN  IF p \in Syspaths /\ sysfs[p].present THEN Snapshot(p) ELSE NoDevice

\* Context::device_from_syspath.
device_from_syspath(syspath) ==
    LET c == os_str_to_cstring(syspath)
    IN  IF c.res.tag = "Err"
        THEN [res |-> c.res, dev |-> NoDevice, ffi |-> <<>>]
        ELSE LET ptr == udev_device_new_from_syspath(c.cstr)
             IN  [res |-> IF ptr = NoDevice THEN Err(ENOMEM) ELSE Ok,
                  dev |-> ptr,
                  ffi |-> <<"udev_device_new_from_syspath">>]

----------------------------------------------------------------------------
(* Filters of an enumerate object and the foreign scan. *)

Initialized(p) == Len(p) = 1

\* A filter as the foreign object stores it: the strings it read at the
\* pointers it was given.
Filter(kind, a, b) == [kind |-> kind, a |-> a, b |-> b]

OfKind(filters, kind) ==
    {filters[i] : i \in {j \in 1..Len(filters) : filters[j].kind = kind}}

SysattrValue(dev, name) == IF name = <<1>> THEN dev.attr ELSE <<>>
PropertyValue(dev, name) == IF name = <<2>> THEN dev.subsystem ELSE <<>>

\* Whether a device passes the filters: within a kind one match is
\* enough, every kind that has a filter must match, no nomatch filter may.
Matches(dev, filters) ==
    /\ OfKind(filters, "match_subsystem") # {} =>
          \E f \in OfKind(filters, "match_subsystem") : f.a = dev.subsystem
    /\ OfKind(filters, "match_sysname") # {} =>
          \E f \in OfKind(filters, "match_sysname") : f.a = Sysname(dev.syspath)
    /\ OfKind(filters, "match_tag") # {} =>
          \E f \in OfKind(filters, "match_tag") : f.a \in Tags(dev.syspath)
    /\ OfKind(filters, "match_attribute") # {} =>
          \E f \in OfKind(filters, "match_attribute") : SysattrValue(dev, f.a) = f.b
    /\ OfKind(filters, "match_property") # {} =>
          \E f \in OfKind(filters, "match_property") : PropertyValue(dev, f.a) = f.b
    /\ OfKind(filters, "match_is_initialized") # {} => Initialized(dev.syspath)
    /\ OfKind(filters, "match_parent") # {} =>
          \E f \in OfKind(filters, "match_parent") : IsAncestorOrSelf(f.a, dev.syspath)
    /\ \A f \in OfKind(filters, "nomatch_subsystem") : f.a # dev.subsystem
    /\ \A f \in OfKind(filters, "nomatch_attribute") : SysattrValue(dev, f.a) # f.b

\* Byte-wise order of two strings, the order the foreign scan sorts by: a
\* parent, being a prefix, comes before its children.
RECURSIVE LexLess(_, _)
LexLess(a, b) ==
    IF a = <<>> THEN b # <<>>
    ELSE IF b = <<>> THEN FALSE
    ELSE IF Head(a) # Head(b) THEN Head(a) < Head(b)
    ELSE LexLess(Tail(a), Tail(b))

RECURSIVE SortedPaths(_)
SortedPaths(S) ==
    IF S = {} THEN <<>>
    ELSE LET m == CHOOSE x \in S : \A y \in S \ {x} : LexLess(x, y)
         IN  <<m>> \o SortedPaths(S \ {m})

\* The devices a scan finds: those present that pass the filters, and
\* those named by add_syspath.
ScanResult(filters) ==
    {p \in Syspaths :
        /\ sysfs[p].present
        /\ \/ Matches(Snapshot(p), filters)
           \/ \E f \in OfKind(filters, "add_syspath") : f.a = p}

\* The list udev_enumerate_get_list_entry returns after a scan: the names
\* as C strings, in dependency order.
ScanList(filters) ==
    LET sorted == SortedPaths(ScanResult(filters))
    IN  [i \in 1..Len(sorted) |-> Append(sorted[i], NUL)]

----------------------------------------------------------------------------
(* Reference counts and the values that hold them. *)

\* The addresses of the foreign udev_enumerate and udev_monitor objects,
\* and the slots of the Devices iterators.
EnumerateIds == {1}
DevicesIds == 1..MaxDevices
MonitorIds == {1}

udev_ref(refs) == refs + 1
udev_unref(refs) == IF refs > 0 THEN refs - 1 ELSE 0

\* Context::clone and Context::drop, on the count of the udev object.
Context_clone(refs) == udev_ref(refs)
Context_drop(refs) == udev_unref(refs)

\* A mutant of Enumerator::from_raw and MonitorBuilder::from_raw: the
\* context is stored as it is, without taking a reference.
from_raw_borrowed(refs) == refs

\* Enumerator::from_raw stores context.clone(): the udev count after it.
Enumerator_from_raw(refs) == Context_clone(refs)

\* MonitorBuilder::from_raw stores context.clone(): the udev count after it.
MonitorBuilder_from_raw(refs) == Context_clone(refs)

\* Device::from_raw keeps a clone of the context it is given.
Device_from_raw(refs) == Context_clone(refs)

FreeEnumerate == [refs |-> 0, filters |-> <<>>, list |-> <<>>]
NewEnumerate == [refs |-> 1, filters |-> <<>>, list |-> <<>>]

udev_enumerate_ref(obj) == [obj EXCEPT !.refs = @ + 1]
udev_enumerate_unref(obj) ==
    IF obj.refs <= 1 THEN FreeEnumerate ELSE [obj EXCEPT !.refs = @ - 1]

\* A Devices iterator.  enumerator and entry are its fields (entry is an
\* index into the list of its enumerate object, NULL at the end); dangling
\* says that the list its entry pointed into was freed while entry was not
\* NULL, and mem is what a read of that freed memory finds; scan, filters,
\* pulled and yielded record the list and filters of its own scan, the
\* lookups it made and the devices it returned.
NoDevices == [enumerator |-> 0, entry |-> NULL, dangling |-> FALSE, mem |-> <<>>,
              scan |-> <<>>, filters |-> <<>>, pulled |-> <<>>, yielded |-> <<>>]

NoDatagram == [syspath |-> <<>>, action |-> "", seqnum |-> 0]

\* What an operation returned: its name, the object it was called on, its
\* string arguments, its result, the foreign calls it made; for listen and
\* scan_devices, the status of the foreign call; for next(), whether it
\* returned Some and of what; for MonitorSocket::next, how the foreign
\* receive ended and the datagram it took from the socket; for
\* Event::event_type, the variant; for a filter operation of the
\* MonitorBuilder, the filters the monitor had before it.
Ret(op, res, ffi) ==
    [op |-> op, obj |-> 0, args |-> <<>>, res |-> res, ffi |-> ffi, status |-> 0,
     some |-> FALSE, item |-> NoDevice, recv |-> "", dgram |-> NoDatagram,
     etype |-> "", before |-> <<>>]

----------------------------------------------------------------------------
(* Context and Enumerator: create, clone, drop. *)

ContextClone ==
    /\ contexts >= 1
    /\ contexts < MaxContexts
    /\ contexts' = contexts + 1
    /\ udev_refs' = Context_clone(udev_refs)
    /\ last' = Ret("Context::clone", Ok, <<"udev_ref">>)
    /\ UNCHANGED <<device_objs, enumerates, enumerators, devices, monitors,
                   builders, sockets, sysfs, kernel_seq>>

ContextDrop ==
    /\ contexts >= 1
    /\ contexts' = contexts - 1
    /\ udev_refs' = Context_drop(udev_refs)
    /\ last' = Ret("Context::drop", Ok, <<"udev_unref">>)
    /\ UNCHANGED <<device_objs, enumerates, enumerators, devices, monitors,
                   builders, sockets, sysfs, kernel_seq>>

\* Dropping a Device releases the context clone it holds.
DeviceDrop ==
    /\ device_objs >= 1
    /\ device_objs' = device_objs - 1
    /\ udev_refs' = Context_drop(udev_refs)
    /\ last' = Ret("Device::drop", Ok, <<"udev_device_unref", "udev_unref">>)
    /\ UNCHANGED <<contexts, enumerates, enumerators, devices, monitors,
                   builders, sockets, sysfs, kernel_seq>>

\* Enumerator::new: udev_enumerate_new may return null.
EnumeratorNew ==
    /\ contexts >= 1
    /\ \/ \E e \in EnumerateIds :
            /\ enumerates[e].refs = 0
            /\ \A f \in EnumerateIds : f < e => enumerates[f].refs > 0
            /\ enumerates' = [enumerates EXCEPT ![e] = NewEnumerate]
            /\ enumerators' = [enumerators EXCEPT ![e] = 1]
            /\ udev_refs' = Enumerator_from_raw(udev_refs)
            /\ last' = Ret("Enumerator::new", Ok, <<"udev_enumerate_new", "udev_ref">>)
       \/ /\ last' = Ret("Enumerator::new", Err(ENOMEM), <<"udev_enumerate_new">>)
          /\ UNCHANGED <<udev_refs, enumerates, enumerators>>
    /\ UNCHANGED <<contexts, device_objs, devices, monitors, builders, sockets, sysfs, kernel_seq>>

EnumeratorClone(e) ==
    /\ enumerators[e] >= 1
    /\ enumerators[e] < MaxEnumerators
    /\ enumerates' = [enumerates EXCEPT ![e] = udev_enumerate_ref(@)]
    /\ enumerators' = [enumerators EXCEPT ![e] = @ + 1]
    /\ udev_refs' = Enumerator_from_raw(udev_refs)
    /\ last' = Ret("Enumerator::clone", Ok, <<"udev_enumerate_ref", "udev_ref">>)
    /\ UNCHANGED <<contexts, device_objs, devices, monitors, builders, sockets, sysfs, kernel_seq>>

\* Enumerator::drop, then the drop of its context field.
EnumeratorDrop(e) ==
    /\ enumerators[e] >= 1
    /\ enumerates' = [enumerates EXCEPT ![e] = udev_enumerate_unref(@)]
    /\ enumerators' = [enumerators EXCEPT ![e] = @ - 1]
    /\ udev_refs' = Context_drop(udev_refs)
    /\ last' = Ret("Enumerator::drop", Ok, <<"udev_enumerate_unref", "udev_unref">>)
    /\ UNCHANGED <<contexts, device_objs, devices, monitors, builders, sockets, sysfs, kernel_seq>>

----------------------------------------------------------------------------
(* Enumerator: the filter-adding operations.  Each returns the result, the *)
(* foreign calls made and the filters of the enumerate object afterwards.  *)

\* The statuses a foreign call returns: 0, or a negative errno.
Statuses == {0, -ENOMEM}

\* udev_enumerate_add_*: on status 0 the filter, as read at the pointers,
\* is added.
udev_enumerate_add(filters, kind, a, b, status) ==
    IF status = 0
    THEN Append(filters, Filter(kind, ptr_to_os_str_unchecked(a),
                                ptr_to_os_str_unchecked(b)))
    ELSE filters

NotCalled(res, filters) == [res |-> res, ffi |-> <<>>, filters |-> filters]

Called(name, kind, a, b, status, filters) ==
    [res |-> errno_to_result(status), ffi |-> <<name>>,
     filters |-> udev_enumerate_add(filters, kind, a, b, status)]

Enumerator_match_is_initialized(filters, status) ==
    Called("udev_enumerate_add_match_is_initialized", "match_is_initialized",
           <<>>, <<>>, status, filters)

Enumerator_match_subsystem(filters, subsystem, status) ==
    LET c == os_str_to_cstring(subsystem)
    IN  IF c.res.tag = "Err" THEN NotCalled(c.res, filters)
        ELSE Called("udev_enumerate_add_match_subsystem", "match_subsystem",
                    c.cstr, <<>>, status, filters)

Enumerator_match_attribute(filters, attribute, value, status) ==
    LET a == os_str_to_cstring(attribute)
        v == os_str_to_cstring(value)
    IN  IF a.res.tag = "Err" THEN NotCalled(a.res, filters)
        ELSE IF v.res.tag = "Err" THEN NotCalled(v.res, filters)
        ELSE Called("udev_enumerate_add_match_sysattr", "match_attribute",
                    a.cstr, v.cstr, status, filters)

Enumerator_match_sysname(filters, sysname, status) ==
    LET c == os_str_to_cstring(sysname)
    IN  IF c.res.tag = "Err" THEN NotCalled(c.res, filters)
        ELSE Called("udev_enumerate_add_match_sysname", "match_sysname",
                    c.cstr, <<>>, status, filters)

Enumerator_match_property(filters, property, value, status) ==
    LET a == os_str_to_cstring(property)
        v == os_str_to_cstring(value)
    IN  IF a.res.tag = "Err" THEN NotCalled(a.res, filters)
        ELSE IF v.res.tag = "Err" THEN NotCalled(v.res, filters)
        ELSE Called("udev_enumerate_add_match_property", "match_property",
                    a.cstr, v.cstr, status, filters)

Enumerator_match_tag(filters, tag, status) ==
    LET c == os_str_to_cstring(tag)
    IN  IF c.res.tag = "Err" THEN NotCalled(c.res, filters)
        ELSE Called("udev_enumerate_add_match_tag", "match_tag",
                    c.cstr, <<>>, status, filters)

\* The parent is a Device: its syspath is read by the foreign layer.
Enumerator_match_parent(filters, parent, status) ==
    Called("udev_enumerate_add_match_parent", "match_parent",
           Append(parent, NUL), <<>>, status, filters)

Enumerator_nomatch_subsystem(filters, subsystem, status) ==
    LET c == os_str_to_cstring(subsystem)
    IN  IF c.res.tag = "Err" THEN NotCalled(c.res, filters)
        ELSE Called("udev_enumerate_add_nomatch_subsystem", "nomatch_subsystem",
                    c.cstr, <<>>, status, filters)

Enumerator_nomatch_attribute(filters, attribute, value, status) ==
    LET a == os_str_to_cstring(attribute)
        v == os_str_to_cstring(value)
    IN  IF a.res.tag = "Err" THEN NotCalled(a.res, filters)
        ELSE IF v.res.tag = "Err" THEN NotCalled(v.res, filters)
        ELSE Called("udev_enumerate_add_nomatch_sysattr", "nomatch_attribute",
                    a.cstr, v.cstr, status, filters)

Enumerator_add_syspath(filters, syspath, status) ==
    LET c == os_str_to_cstring(syspath)
    IN  IF c.res.tag = "Err" THEN NotCalled(c.res, filters)
        ELSE Called("udev_enumerate_add_syspath", "add_syspath",
                    c.cstr, <<>>, status, filters)

\* The state change of a filter-adding call on an Enumerator of object e.
EnumeratorFilter(e, op, args, r) ==
    /\ enumerators[e] >= 1
    /\ Len(r.filters) <= MaxFilters
    /\ enumerates' = [enumerates EXCEPT ![e].filters = r.filters]
    /\ last' = [Ret(op, r.res, r.ffi) EXCEPT !.obj = e, !.args = args]
    /\ UNCHANGED <<udev_refs, contexts, device_objs, enumerators, devices,
                   monitors, builders, sockets, sysfs, kernel_seq>>

MatchIsInitialized(e) ==
    \E st \in Statuses :
        EnumeratorFilter(e, "Enumerator::match_is_initialized", <<>>,
            Enumerator_match_is_initialized(enumerates[e].filters, st))

MatchSubsystem(e) ==
    \E s \in Strings, st \in Statuses :
        EnumeratorFilter(e, "Enumerator::match_subsystem", <<s>>,
            Enumerator_match_subsystem(enumerates[e].filters, s, st))

MatchAttribute(e) ==
    \E a \in Strings, v \in Strings, st \in Statuses :
        EnumeratorFilter(e, "Enumerator::match_attribute", <<a, v>>,
            Enumerator_match_attribute(enumerates[e].filters, a, v, st))

MatchSysname(e) ==
    \E s \in Strings, st \in Statuses :
        EnumeratorFilter(e, "Enumerator::match_sysname", <<s>>,
            Enumerator_match_sysname(enumerates[e].filters, s, st))

MatchProperty(e) ==
    \E a \in Strings, v \in Strings, st \in Statuses :
        EnumeratorFilter(e, "Enumerator::match_property", <<a, v>>,
            Enumerator_match_property(enumerates[e].filters, a, v, st))

MatchTag(e) ==
    \E s \in Strings, st \in Statuses :
        EnumeratorFilter(e, "Enumerator::match_tag", <<s>>,
            Enumerator_match_tag(enumerates[e].filters, s, st))

MatchParent(e) ==
    \E p \in Syspaths, st \in Statuses :
        EnumeratorFilter(e, "Enumerator::match_parent", <<p>>,
            Enumerator_match_parent(enumerates[e].filters, p, st))

NomatchSubsystem(e) ==
    \E s \in Strings, st \in Statuses :
        EnumeratorFilter(e, "Enumerator::nomatch_subsystem", <<s>>,
            Enumerator_nomatch_subsystem(enumerates[e].filters, s, st))

NomatchAttribute(e) ==
    \E a \in Strings, v \in Strings, st \in Statuses :
        EnumeratorFilter(e, "Enumerator::nomatch_attribute", <<a, v>>,
            Enumerator_nomatch_attribute(enumerates[e].filters, a, v, st))

AddSyspath(e) ==
    \E s \in Strings \cup Syspaths, st \in Statuses :
        EnumeratorFilter(e, "Enumerator::add_syspath", <<s>>,
            Enumerator_add_syspath(enumerates[e].filters, s, st))

----------------------------------------------------------------------------
(* scan_devices and the Devices iterator. *)

\* udev_enumerate_scan_devices followed by udev_enumerate_get_list_entry:
\* the enumerate object frees the entries of its previous list and builds
\* the list of the devices that pass its filters now.
udev_enumerate_scan_devices(obj) == [obj EXCEPT !.list = ScanList(obj.filters)]

udev_enumerate_get_list_entry(obj) == IF obj.list = <<>> THEN NULL ELSE 1

udev_list_entry_get_name(list, entry) == list[entry]

udev_list_entry_get_next(list, entry) == IF entry < Len(list) THEN entry + 1 ELSE NULL

\* The iterators whose entry points into the list of object e that a
\* new scan frees.
Invalidated(e) ==
    [i \in DevicesIds |->
        IF devices[i].enumerator = e /\ devices[i].entry # NULL
        THEN [devices[i] EXCEPT !.dangling = TRUE]
        ELSE devices[i]]

\* Enumerator::scan_devices on an Enumerator of object e.
ScanDevices(e) ==
    /\ enumerators[e] >= 1
    /\ \E status \in Statuses :
          IF errno_to_result(status).tag = "Err"
          THEN /\ last' = [Ret("Enumerator::scan_devices", errno_to_result(status),
                               <<"udev_enumerate_scan_devices">>)
                           EXCEPT !.obj = e, !.status = status]
               /\ UNCHANGED <<udev_refs, enumerates, devices>>
          ELSE \E i \in DevicesIds :
               LET obj == udev_enumerate_scan_devices(enumerates[e])
               IN  /\ devices[i].enumerator = 0
                   /\ \A j \in DevicesIds : j < i => devices[j].enumerator # 0
                   /\ enumerates' = [enumerates EXCEPT ![e] = udev_enumerate_ref(obj)]
                   /\ udev_refs' = Enumerator_from_raw(udev_refs)
                   /\ devices' = [Invalidated(e) EXCEPT ![i] =
                         [NoDevices EXCEPT !.enumerator = e,
                                           !.entry = udev_enumerate_get_list_entry(obj),
                                           !.scan = obj.list,
                                           !.filters = obj.filters]]
                   /\ last' = [Ret("Enumerator::scan_devices", Ok,
                                   <<"udev_enumerate_scan_devices", "udev_enumerate_ref",
                                     "udev_ref", "udev_enumerate_get_list_entry">>)
                               EXCEPT !.obj = e, !.status = status]
    /\ UNCHANGED <<contexts, device_objs, enumerators, monitors, builders,
                   sockets, sysfs, kernel_seq>>

\* Devices::next: the loop over the list, from entry on.  It returns
\* whether a Device was built, the Device, the entry afterwards and the
\* lookups made.
RECURSIVE Devices_next(_, _, _)
Devices_next(list, entry, pulled) ==
    IF entry = NULL
    THEN [some |-> FALSE, item |-> NoDevice, entry |-> NULL, pulled |-> pulled]
    ELSE LET syspath == ptr_to_os_str_unchecked(udev_list_entry_get_name(list, entry))
             next == udev_list_entry_get_next(list, entry)
             r == device_from_syspath(syspath)
         IN  IF r.res.tag = "Ok"
             THEN [some |-> TRUE, item |-> r.dev, entry |-> next,
                   pulled |-> Append(pulled, [name |-> syspath, ok |-> TRUE])]
             ELSE Devices_next(list, next,
                               Append(pulled, [name |-> syspath, ok |-> FALSE]))

\* What a read through a dangling entry may find: freed memory holds any
\* entries.  The garbage is laid out from the entry's address on.
GarbageNames == {Append(p, NUL) : p \in Syspaths}

GarbageLists ==
    UNION {[1..n -> GarbageNames] : n \in 1..MaxGarbage}

Padded(entry, g) ==
    [k \in 1..(entry - 1 + Len(g)) |-> IF k < entry THEN <<NUL>> ELSE g[k - entry + 1]]

\* The memory a Devices iterator reads its entries from.
Memory(it) ==
    IF ~it.dangling \/ it.entry = NULL THEN {enumerates[it.enumerator].list}
    ELSE IF it.mem # <<>> THEN {it.mem}
    ELSE {Padded(it.entry, g) : g \in GarbageLists}

DevicesNext(i) ==
    /\ devices[i].enumerator # 0
    /\ \E list \in Memory(devices[i]) :
          LET it == devices[i]
              r == Devices_next(list, it.entry, it.pulled)
          IN  /\ devices' = [devices EXCEPT ![i] =
                    [it EXCEPT !.entry = r.entry,
                               !.mem = IF it.dangling /\ r.entry # NULL THEN list ELSE <<>>,
                               !.pulled = r.pulled,
                               !.yielded = IF r.some THEN Append(@, r.item) ELSE @]]
              /\ device_objs' = IF r.some THEN device_objs + 1 ELSE device_objs
              /\ udev_refs' = IF r.some THEN Device_from_raw(udev_refs) ELSE udev_refs
              /\ last' = [Ret("Devices::next", Ok, <<>>) EXCEPT
                             !.some = r.some, !.item = r.item]
    /\ UNCHANGED <<contexts, enumerates, enumerators, monitors, builders,
                   sockets, sysfs, kernel_seq>>

\* Dropping a Devices iterator drops the Enumerator it holds.
DevicesDrop(i) ==
    /\ devices[i].enumerator # 0
    /\ enumerates' = [enumerates EXCEPT ![devices[i].enumerator] = udev_enumerate_unref(@)]
    /\ devices' = [devices EXCEPT ![i] = NoDevices]
    /\ udev_refs' = Context_drop(udev_refs)
    /\ last' = Ret("Devices::drop", Ok, <<"udev_enumerate_unref", "udev_unref">>)
    /\ UNCHANGED <<contexts, device_objs, enumerators, monitors, builders,
                   sockets, sysfs, kernel_seq>>

----------------------------------------------------------------------------
(* The device database changes under the program. *)

DeviceRemoved(p) ==
    /\ sysfs[p].present
    /\ sysfs' = [sysfs EXCEPT ![p].present = FALSE]
    /\ UNCHANGED <<udev_refs, contexts, device_objs, enumerates, enumerators,
                   devices, monitors, builders, sockets, kernel_seq, last>>

AttributeChanged(p) ==
    /\ sysfs[p].present
    /\ \E v \in AttrValues \ {sysfs[p].attr} :
          sysfs' = [sysfs EXCEPT ![p].attr = v]
    /\ UNCHANGED <<udev_refs, contexts, device_objs, enumerates, enumerators,
                   devices, monitors, builders, sockets, kernel_seq, last>>

----------------------------------------------------------------------------
(* MonitorBuilder and MonitorSocket. *)

\* A foreign udev_monitor: its reference count, its kernel-side filters,
\* whether receiving is enabled, and the datagrams waiting in its socket.
\* listens counts the listen() calls made on it, at_listen records the
\* filters it had when receiving was enabled, none_seen says that a
\* next() on it has returned None, and events records, in call order, the
\* sequence number of every Event its sockets have yielded and which of
\* the sockets then alive yielded it.
FreeMonitor == [refs |-> 0, filters |-> <<>>, receiving |-> FALSE, queue |-> <<>>,
                listens |-> 0, at_listen |-> <<>>, none_seen |-> FALSE,
                events |-> <<>>]
NewMonitor == [FreeMonitor EXCEPT !.refs = 1]

\* A mutant of udev_monitor_ref: no reference is taken.
udev_monitor_ref_missing(obj) == obj

udev_monitor_ref(obj) == [obj EXCEPT !.refs = @ + 1]
udev_monitor_unref(obj) ==
    IF obj.refs <= 1 THEN FreeMonitor ELSE [obj EXCEPT !.refs = @ - 1]

Devtype(p) == IF Len(p) > 1 THEN <<1>> ELSE <<2>>

\* A mutant of PassesFilters: the kernel lets every uevent through.
PassesFilters_open(dgram, filters) == TRUE

\* Whether the kernel lets a uevent through the filters of a monitor: one
\* of the subsystem(/devtype) filters, if there are any, and one of the
\* tag filters, if there are any.
PassesFilters(dgram, filters) ==
    /\ OfKind(filters, "subsystem_devtype") # {} =>
          \E f \in OfKind(filters, "subsystem_devtype") :
              /\ f.a = Subsystem(dgram.syspath)
              /\ f.b # <<>> => f.b = Devtype(dgram.syspath)
    /\ OfKind(filters, "tag") # {} =>
          \E f \in OfKind(filters, "tag") : f.a \in Tags(dgram.syspath)

\* udev_monitor_filter_add_match_*: on status 0 the filter is added.
udev_monitor_filter_add(filters, kind, a, b, status) ==
    IF status = 0
    THEN Append(filters, Filter(kind, ptr_to_os_str_unchecked(a),
                                ptr_to_os_str_unchecked(b)))
    ELSE filters

MonitorCalled(name, kind, a, b, status, filters) ==
    [res |-> errno_to_result(status), ffi |-> <<name>>,
     filters |-> udev_monitor_filter_add(filters, kind, a, b, status)]

MonitorBuilder_match_subsystem(filters, subsystem, status) ==
    LET c == os_str_to_cstring(subsystem)
    IN  IF c.res.tag = "Err" THEN NotCalled(c.res, filters)
        ELSE MonitorCalled("udev_monitor_filter_add_match_subsystem_devtype",
                           "subsystem_devtype", c.cstr, <<>>, status, filters)

MonitorBuilder_match_subsystem_devtype(filters, subsystem, devtype, status) ==
    LET c == os_str_to_cstring(subsystem)
        d == os_str_to_cstring(devtype)
    IN  IF c.res.tag = "Err" THEN NotCalled(c.res, filters)
        ELSE IF d.res.tag = "Err" THEN NotCalled(d.res, filters)
        ELSE MonitorCalled("udev_monitor_filter_add_match_subsystem_devtype",
                           "subsystem_devtype", c.cstr, d.cstr, status, filters)

MonitorBuilder_match_tag(filters, tag, status) ==
    LET c == os_str_to_cstring(tag)
    IN  IF c.res.tag = "Err" THEN NotCalled(c.res, filters)
        ELSE MonitorCalled("udev_monitor_filter_add_match_tag", "tag",
                           c.cstr, <<>>, status, filters)

\* A mutant of clear_filters: the foreign call is not made.
MonitorBuilder_clear_filters_skipped(filters, status) ==
    [res |-> Ok, ffi |-> <<>>, filters |-> filters]

\* udev_monitor_filter_remove drops every filter on status 0.
MonitorBuilder_clear_filters(filters, status) ==
    [res |-> errno_to_result(status), ffi |-> <<"udev_monitor_filter_remove">>,
     filters |-> IF status = 0 THEN <<>> ELSE filters]

\* MonitorBuilder::new: udev_monitor_new_from_netlink may return null.
MonitorBuilderNew ==
    /\ contexts >= 1
    /\ \/ \E m \in MonitorIds :
            /\ monitors[m].refs = 0
            /\ \A n \in MonitorIds : n < m => monitors[n].refs > 0
            /\ monitors' = [monitors EXCEPT ![m] = NewMonitor]
            /\ builders' = [builders EXCEPT ![m] = 1]
            /\ udev_refs' = MonitorBuilder_from_raw(udev_refs)
            /\ last' = [Ret("MonitorBuilder::new", Ok,
                            <<"udev_monitor_new_from_netlink", "udev_ref">>)
                        EXCEPT !.obj = m]
       \/ /\ last' = Ret("MonitorBuilder::new", Err(ENOMEM),
                         <<"udev_monitor_new_from_netlink">>)
          /\ UNCHANGED <<udev_refs, monitors, builders>>
    /\ UNCHANGED <<contexts, device_objs, enumerates, enumerators, devices,
                   sockets, sysfs, kernel_seq>>

\* The state change of a filter operation on the MonitorBuilder of object m.
MonitorFilter(m, op, args, r) ==
    /\ builders[m] >= 1
    /\ Len(r.filters) <= MaxFilters
    /\ monitors' = [monitors EXCEPT ![m].filters = r.filters]
    /\ last' = [Ret(op, r.res, r.ffi) EXCEPT !.obj = m, !.args = args,
                                             !.before = monitors[m].filters]
    /\ UNCHANGED <<udev_refs, contexts, device_objs, enumerates, enumerators,
                   devices, builders, sockets, sysfs, kernel_seq>>

MonitorMatchSubsystem(m) ==
    \E s \in Strings, st \in Statuses :
        MonitorFilter(m, "MonitorBuilder::match_subsystem", <<s>>,
            MonitorBuilder_match_subsystem(monitors[m].filters, s, st))

MonitorMatchSubsystemDevtype(m) ==
    \E s \in Strings, d \in Strings, st \in Statuses :
        MonitorFilter(m, "MonitorBuilder::match_subsystem_devtype", <<s, d>>,
            MonitorBuilder_match_subsystem_devtype(monitors[m].filters, s, d, st))

MonitorMatchTag(m) ==
    \E s \in Strings, st \in Statuses :
        MonitorFilter(m, "MonitorBuilder::match_tag", <<s>>,
            MonitorBuilder_match_tag(monitors[m].filters, s, st))

MonitorClearFilters(m) ==
    \E st \in Statuses :
        MonitorFilter(m, "MonitorBuilder::clear_filters", <<>>,
            MonitorBuilder_clear_filters(monitors[m].filters, st))

\* MonitorBuilder::drop, then the drop of its context field.
MonitorBuilderDrop(m) ==
    /\ builders[m] >= 1
    /\ builders' = [builders EXCEPT ![m] = @ - 1]
    /\ monitors' = [monitors EXCEPT ![m] = udev_monitor_unref(@)]
    /\ udev_refs' = Context_drop(udev_refs)
    /\ last' = [Ret("MonitorBuilder::drop", Ok, <<"udev_monitor_unref", "udev_unref">>)
                EXCEPT !.obj = m]
    /\ UNCHANGED <<contexts, device_objs, enumerates, enumerators, devices,
                   sockets, sysfs, kernel_seq>>

\* A mutant of listen: it borrows the builder instead of taking it.
MonitorBuilder_listen_borrowed(n) == n

\* listen(self) takes the builder by value: the builders left of n.
MonitorBuilder_listen(n) == n - 1

\* MonitorBuilder::listen.  On a nonzero status self is dropped; on
\* success it becomes the inner builder of the MonitorSocket returned.
Listen(m) ==
    /\ builders[m] >= 1
    /\ builders' = [builders EXCEPT ![m] = MonitorBuilder_listen(@)]
    /\ \E status \in Statuses :
          IF errno_to_result(status).tag = "Err"
          THEN /\ monitors' = [monitors EXCEPT ![m] =
                      IF builders'[m] = 0
                      THEN udev_monitor_unref(@)
                      ELSE [@ EXCEPT !.listens = @ + 1]]
               /\ udev_refs' = IF builders'[m] = 0 THEN Context_drop(udev_refs)
                               ELSE udev_refs
               /\ sockets' = sockets
               /\ last' = [Ret("MonitorBuilder::listen", errno_to_result(status),
                               <<"udev_monitor_enable_receiving", "udev_monitor_unref",
                                 "udev_unref">>)
                           EXCEPT !.obj = m, !.status = status]
          ELSE /\ monitors' = [monitors EXCEPT ![m].receiving = TRUE,
                                               ![m].listens = @ + 1,
                                               ![m].at_listen = monitors[m].filters]
               /\ sockets' = [sockets EXCEPT ![m] = @ + 1]
               /\ udev_refs' = udev_refs
               /\ last' = [Ret("MonitorBuilder::listen", Ok,
                               <<"udev_monitor_enable_receiving">>)
                           EXCEPT !.obj = m, !.status = status]
    /\ UNCHANGED <<contexts, device_objs, enumerates, enumerators, devices,
                   sysfs, kernel_seq>>

\* MonitorSocket::clone.
MonitorSocketClone(m) ==
    /\ sockets[m] >= 1
    /\ sockets[m] < MaxSockets
    /\ sockets' = [sockets EXCEPT ![m] = @ + 1]
    /\ monitors' = [monitors EXCEPT ![m] = udev_monitor_ref(@)]
    /\ udev_refs' = MonitorBuilder_from_raw(udev_refs)
    /\ last' = [Ret("MonitorSocket::clone", Ok, <<"udev_monitor_ref", "udev_ref">>)
                EXCEPT !.obj = m]
    /\ UNCHANGED <<contexts, device_objs, enumerates, enumerators, devices,
                   builders, sysfs, kernel_seq>>

\* Dropping a MonitorSocket drops its inner MonitorBuilder.
MonitorSocketDrop(m) ==
    /\ sockets[m] >= 1
    /\ sockets' = [sockets EXCEPT ![m] = @ - 1]
    /\ monitors' = [monitors EXCEPT ![m] = udev_monitor_unref(@)]
    /\ udev_refs' = Context_drop(udev_refs)
    /\ last' = [Ret("MonitorSocket::drop", Ok, <<"udev_monitor_unref", "udev_unref">>)
                EXCEPT !.obj = m]
    /\ UNCHANGED <<contexts, device_objs, enumerates, enumerators, devices,
                   builders, sysfs, kernel_seq>>

\* MonitorSocket::into_raw returns self.inner.monitor; self is dropped as
\* the call returns, which drops its inner MonitorBuilder.
MonitorSocketIntoRaw(m) ==
    /\ sockets[m] >= 1
    /\ sockets' = [sockets EXCEPT ![m] = @ - 1]
    /\ monitors' = [monitors EXCEPT ![m] = udev_monitor_unref(@)]
    /\ udev_refs' = Context_drop(udev_refs)
    /\ last' = [Ret("MonitorSocket::into_raw", Ok, <<"udev_monitor_unref", "udev_unref">>)
                EXCEPT !.obj = m]
    /\ UNCHANGED <<contexts, device_objs, enumerates, enumerators, devices,
                   builders, sysfs, kernel_seq>>

Actions == {"add", "remove"}

\* The kernel sends a uevent: it reaches the socket of every monitor that
\* is receiving, whose filters let it through and whose buffer has room.
Uevent(p, action) ==
    /\ kernel_seq < MaxSeq
    /\ kernel_seq' = kernel_seq + 1
    /\ monitors' = [m \in MonitorIds |->
          LET dgram == [syspath |-> p, action |-> action, seqnum |-> kernel_seq + 1]
          IN  IF /\ monitors[m].receiving
                 /\ PassesFilters(dgram, monitors[m].filters)
                 /\ Len(monitors[m].queue) < MaxQueue
              THEN [monitors[m] EXCEPT !.queue = Append(@, dgram)]
              ELSE monitors[m]]
    /\ UNCHANGED <<udev_refs, contexts, device_objs, enumerates, enumerators,
                   devices, builders, sockets, sysfs, last>>

\* The Device the foreign layer decodes from a datagram.
Decode(dgram) ==
    [syspath |-> dgram.syspath, subsystem |-> Subsystem(dgram.syspath),
     attr |-> <<>>, action |-> dgram.action, seqnum |-> dgram.seqnum]

\* A mutant of the receive: the datagram read stays in the socket.
udev_monitor_receive_device_peek(queue) ==
    IF queue = <<>>
    THEN {[recv |-> "would_block", ptr |-> NoDevice, dgram |-> NoDatagram,
           queue |-> queue]}
    ELSE {[recv |-> "received", ptr |-> Decode(Head(queue)), dgram |-> Head(queue),
           queue |-> queue]}

\* The ways one udev_monitor_receive_device call can end: nothing to read
\* (null), a device decoded from the first datagram, or a failure (null)
\* that may have taken the first datagram off the socket.
udev_monitor_receive_device(queue) ==
    (IF queue = <<>>
     THEN {[recv |-> "would_block", ptr |-> NoDevice, dgram |-> NoDatagram,
            queue |-> queue]}
     ELSE {[recv |-> "received", ptr |-> Decode(Head(queue)), dgram |-> Head(queue),
            queue |-> Tail(queue)],
           [recv |-> "failed", ptr |-> NoDevice, dgram |-> Head(queue),
            queue |-> Tail(queue)]})
    \cup {[recv |-> "failed", ptr |-> NoDevice, dgram |-> NoDatagram, queue |-> queue]}

\* A mutant of next: the null check is lost.
MonitorSocket_next_unchecked(obj, r) ==
    [res |-> Ok, some |-> TRUE, item |-> r.ptr]

\* A mutant of next: once it has returned None it goes on returning None.
MonitorSocket_next_fused(obj, r) ==
    IF r.ptr = NoDevice \/ obj.none_seen
    THEN [res |-> Ok, some |-> FALSE, item |-> NoDevice]
    ELSE [res |-> Ok, some |-> TRUE, item |-> r.ptr]

\* A mutant of next: a receive that failed is reported as an error.
MonitorSocket_next_errno(obj, r) ==
    IF r.recv = "failed"
    THEN [res |-> Err(EINVAL), some |-> FALSE, item |-> NoDevice]
    ELSE IF r.ptr = NoDevice
    THEN [res |-> Ok, some |-> FALSE, item |-> NoDevice]
    ELSE [res |-> Ok, some |-> TRUE, item |-> r.ptr]

\* MonitorSocket::next on what the receive returned: None on a null
\* pointer, otherwise an Event of the Device.
MonitorSocket_next(obj, r) ==
    IF r.ptr = NoDevice
    THEN [res |-> Ok, some |-> FALSE, item |-> NoDevice]
    ELSE [res |-> Ok, some |-> TRUE, item |-> r.ptr]

\* next() on any one of the MonitorSockets of object m: each of them calls
\* the receive on the same foreign monitor.
MonitorSocketNext(m) ==
    /\ sockets[m] >= 1
    /\ \E c \in 1..sockets[m], r \in udev_monitor_receive_device(monitors[m].queue) :
          LET out == MonitorSocket_next(monitors[m], r)
          IN  /\ out.some => device_objs < MaxDeviceObjs
              /\ monitors' = [monitors EXCEPT
                                 ![m].queue = r.queue,
                                 ![m].none_seen = @ \/ ~out.some,
                                 ![m].events = IF out.some
                                               THEN Append(@, [seqnum |-> out.item.seqnum,
                                                               by |-> c])
                                               ELSE @]
              /\ device_objs' = IF out.some THEN device_objs + 1 ELSE device_objs
              /\ udev_refs' = IF out.some THEN Device_from_raw(udev_refs) ELSE udev_refs
              /\ last' = [Ret("MonitorSocket::next", out.res,
                              <<"udev_monitor_receive_device">>)
                          EXCEPT !.obj = m, !.some = out.some, !.item = out.item,
                                 !.recv = r.recv, !.dgram = r.dgram]
    /\ UNCHANGED <<contexts, enumerates, enumerators, devices, builders, sockets,
                   sysfs, kernel_seq>>

----------------------------------------------------------------------------
(* Event::event_type. *)

None == [tag |-> "None", v |-> ""]
Some(v) == [tag |-> "Some", v |-> v]

\* The values of ACTION a uevent may carry: the five that have a variant,
\* two that differ from one of them in case or by a suffix, one that has
\* none, one that is not UTF-8, and "" for a uevent without the property.
NotUtf8 == {"<ff>"}
ActionValues == {"add", "change", "remove", "bind", "unbind",
                 "Add", "removed", "offline", "<ff>", ""}

\* Device::property_value: the value of the property, None when the device
\* has no such property.
property_value(device, key) ==
    IF key = "ACTION" /\ device.action # "" THEN Some(device.action) ELSE None

\* OsStr::to_str: None when the bytes are not UTF-8.
to_str(s) == IF s \in NotUtf8 THEN None ELSE Some(s)

\* A mutant of event_type: a value without a variant is taken as Add.
Event_event_type_default_add(device) ==
    LET a == device.action
    IN  IF a = "change" THEN "Change"
        ELSE IF a = "remove" THEN "Remove"
        ELSE IF a = "bind" THEN "Bind"
        ELSE IF a = "unbind" THEN "Unbind"
        ELSE "Add"

\* A mutant of event_type: the match is on a prefix of the value.
Event_event_type_prefix(device) ==
    LET a == device.action
    IN  IF a = "add" THEN "Add"
        ELSE IF a = "change" THEN "Change"
        ELSE IF a \in {"remove", "removed"} THEN "Remove"
        ELSE IF a = "bind" THEN "Bind"
        ELSE IF a = "unbind" THEN "Unbind"
        ELSE "Unknown"

\* Event::event_type.
Event_event_type(device) ==
    LET value == LET pv == property_value(device, "ACTION")
                 IN  IF pv.tag = "Some" THEN to_str(pv.v) ELSE None
    IN  CASE value = Some("add") -> "Add"
          [] value = Some("change") -> "Change"
          [] value = Some("remove") -> "Remove"
          [] value = Some("bind") -> "Bind"
          [] value = Some("unbind") -> "Unbind"
          [] OTHER -> "Unknown"

\* event_type called on the Event that next() has just returned.
EventEventType ==
    /\ last.op = "MonitorSocket::next"
    /\ last.some
    /\ last' = [Ret("Event::event_type", Ok, <<"udev_device_get_property_value">>)
                EXCEPT !.obj = last.obj, !.item = last.item,
                       !.etype = Event_event_type(last.item)]
    /\ UNCHANGED <<udev_refs, contexts, device_objs, enumerates, enumerators,
                   devices, monitors, builders, sockets, sysfs, kernel_seq>>

----------------------------------------------------------------------------
(* Context: the lookups that take strings. *)

\* udev_device_new_from_subsystem_sysname: null when there is no such device.
udev_device_new_from_subsystem_sysname(subsystem, sysname) ==
    LET found == {p \in Syspaths :
                    /\ sysfs[p].present
                    /\ Subsystem(p) = ptr_to_os_str_unchecked(subsystem)
                    /\ Sysname(p) = ptr_to_os_str_unchecked(sysname)}
    IN  IF found = {} THEN NoDevice
        ELSE Snapshot(CHOOSE p \in found : \A q \in found \ {p} : LexLess(p, q))

\* The device id of the sample devices: subsystem, then name.
DeviceId(p) == Subsystem(p) \o Sysname(p)

\* udev_device_new_from_device_id: null when there is no such device.
udev_device_new_from_device_id(id) ==
    LET found == {p \in Syspaths :
                    sysfs[p].present /\ DeviceId(p) = ptr_to_os_str_unchecked(id)}
    IN  IF found = {} THEN NoDevice
        ELSE Snapshot(CHOOSE p \in found : \A q \in found \ {p} : LexLess(p, q))

device_from_subsystem_sysname(subsystem, sysname) ==
    LET a == os_str_to_cstring(subsystem)
        b == os_str_to_cstring(sysname)
    IN  IF a.res.tag = "Err" THEN [res |-> a.res, dev |-> NoDevice, ffi |-> <<>>]
        ELSE IF b.res.tag = "Err" THEN [res |-> b.res, dev |-> NoDevice, ffi |-> <<>>]
        ELSE LET ptr == udev_device_new_from_subsystem_sysname(a.cstr, b.cstr)
             IN  [res |-> IF ptr = NoDevice THEN Err(ENOMEM) ELSE Ok,
                  dev |-> ptr,
                  ffi |-> <<"udev_device_new_from_subsystem_sysname">>]

device_from_device_id(device_id) ==
    LET c == os_str_to_cstring(device_id)
    IN  IF c.res.tag = "Err" THEN [res |-> c.res, dev |-> NoDevice, ffi |-> <<>>]
        ELSE LET ptr == udev_device_new_from_device_id(c.cstr)
             IN  [res |-> IF ptr = NoDevice THEN Err(ENOMEM) ELSE Ok,
                  dev |-> ptr,
                  ffi |-> <<"udev_device_new_from_device_id">>]

\* The state change of a lookup: a Device built takes a context clone.
ContextLookup(op, args, r) ==
    /\ contexts >= 1
    /\ r.res.tag = "Ok" => device_objs < MaxDeviceObjs
    /\ device_objs' = IF r.res.tag = "Ok" THEN device_objs + 1 ELSE device_objs
    /\ udev_refs' = IF r.res.tag = "Ok" THEN Device_from_raw(udev_refs) ELSE udev_refs
    /\ last' = [Ret(op, r.res, r.ffi) EXCEPT !.args = args,
                   !.some = (r.res.tag = "Ok"), !.item = r.dev]
    /\ UNCHANGED <<contexts, enumerates, enumerators, devices, monitors,
                   builders, sockets, sysfs, kernel_seq>>

DeviceFromSyspath ==
    \E s \in Strings \cup Syspaths :
        ContextLookup("Context::device_from_syspath", <<s>>, device_from_syspath(s))

DeviceFromSubsystemSysname ==
    \E s \in Strings, n \in Strings :
        ContextLookup("Context::device_from_subsystem_sysname", <<s, n>>,
                      device_from_subsystem_sysname(s, n))

DeviceFromDeviceId ==
    \E s \in Strings \cup {DeviceId(p) : p \in Syspaths} :
        ContextLookup("Context::device_from_device_id", <<s>>,
                      device_from_device_id(s))

----------------------------------------------------------------------------
(* The specifications. *)

Init ==
    /\ udev_refs = 1
    /\ contexts = 1
    /\ device_objs = 0
    /\ enumerates = [e \in EnumerateIds |-> FreeEnumerate]
    /\ enumerators = [e \in EnumerateIds |-> 0]
    /\ devices = [i \in DevicesIds |-> NoDevices]
    /\ monitors = [m \in MonitorIds |-> FreeMonitor]
    /\ builders = [m \in MonitorIds |-> 0]
    /\ sockets = [m \in MonitorIds |-> 0]
    /\ sysfs = [p \in Syspaths |-> [present |-> TRUE, attr |-> <<1>>]]
    /\ kernel_seq = 0
    /\ last = Ret("Context::new", Ok, <<"udev_new">>)

\* Handles: every create, clone and drop of the Context and of the objects
\* derived from it.
Next ==
    \/ ContextClone
    \/ ContextDrop
    \/ EnumeratorNew
    \/ \E e \in EnumerateIds : EnumeratorClone(e)
    \/ \E e \in EnumerateIds : EnumeratorDrop(e)
    \/ \E e \in EnumerateIds : ScanDevices(e)
    \/ \E i \in DevicesIds : DevicesDrop(i)
    \/ MonitorBuilderNew
    \/ \E m \in MonitorIds : MonitorBuilderDrop(m)
    \/ \E m \in MonitorIds : Listen(m)
    \/ \E m \in MonitorIds : MonitorSocketClone(m)
    \/ \E m \in MonitorIds : MonitorSocketDrop(m)
    \/ \E m \in MonitorIds : MonitorSocketIntoRaw(m)

Spec == Init /\ [][Next]_vars

\* The monitor: building, listening, receiving.
NextMonitor ==
    \/ MonitorBuilderNew
    \/ \E m \in MonitorIds : MonitorMatchSubsystem(m)
    \/ \E m \in MonitorIds : MonitorMatchSubsystemDevtype(m)
    \/ \E m \in MonitorIds : MonitorMatchTag(m)
    \/ \E m \in MonitorIds : MonitorClearFilters(m)
    \/ \E m \in MonitorIds : MonitorBuilderDrop(m)
    \/ \E m \in MonitorIds : Listen(m)
    \/ \E m \in MonitorIds : MonitorSocketClone(m)
    \/ \E m \in MonitorIds : MonitorSocketDrop(m)
    \/ \E m \in MonitorIds : MonitorSocketNext(m)
    \/ \E p \in Syspaths, a \in Actions : Uevent(p, a)
    \/ DeviceDrop

SpecMonitor == Init /\ [][NextMonitor]_vars

\* The enumerator: filters, scans and iteration while devices are removed
\* and attributes change.
NextEnum ==
    \/ EnumeratorNew
    \/ \E e \in EnumerateIds : EnumeratorClone(e)
    \/ \E e \in EnumerateIds : MatchSubsystem(e)
    \/ \E e \in EnumerateIds : MatchAttribute(e)
    \/ \E e \in EnumerateIds : ScanDevices(e)
    \/ \E i \in DevicesIds : DevicesNext(i)
    \/ \E p \in Syspaths : DeviceRemoved(p)
    \/ \E p \in Syspaths : AttributeChanged(p)

SpecEnum == Init /\ [][NextEnum]_vars

\* Every operation that takes strings from the caller.
NextInput ==
    \/ EnumeratorNew
    \/ \E e \in EnumerateIds : MatchSubsystem(e)
    \/ \E e \in EnumerateIds : MatchAttribute(e)
    \/ \E e \in EnumerateIds : MatchSysname(e)
    \/ \E e \in EnumerateIds : MatchProperty(e)
    \/ \E e \in EnumerateIds : MatchTag(e)
    \/ \E e \in EnumerateIds : NomatchSubsystem(e)
    \/ \E e \in EnumerateIds : NomatchAttribute(e)
    \/ \E e \in EnumerateIds : AddSyspath(e)
    \/ MonitorBuilderNew
    \/ \E m \in MonitorIds : MonitorMatchSubsystem(m)
    \/ \E m \in MonitorIds : MonitorMatchSubsystemDevtype(m)
    \/ \E m \in MonitorIds : MonitorMatchTag(m)
    \/ DeviceFromSyspath
    \/ DeviceFromSubsystemSysname
    \/ DeviceFromDeviceId
    \/ DeviceDrop

SpecInput == Init /\ [][NextInput]_vars

\* The filters of an Enumerator: every filter-adding operation, and the
\* scans made with the filters.
NextFilter ==
    \/ EnumeratorNew
    \/ \E e \in EnumerateIds : MatchIsInitialized(e)
    \/ \E e \in EnumerateIds : MatchSubsystem(e)
    \/ \E e \in EnumerateIds : MatchAttribute(e)
    \/ \E e \in EnumerateIds : MatchSysname(e)
    \/ \E e \in EnumerateIds : MatchProperty(e)
    \/ \E e \in EnumerateIds : MatchTag(e)
    \/ \E e \in EnumerateIds : MatchParent(e)
    \/ \E e \in EnumerateIds : NomatchSubsystem(e)
    \/ \E e \in EnumerateIds : NomatchAttribute(e)
    \/ \E e \in EnumerateIds : AddSyspath(e)
    \/ \E e \in EnumerateIds : ScanDevices(e)

SpecFilter == Init /\ [][NextFilter]_vars

\* Events: uevents of every kind of ACTION value, received and classified.
NextEvent ==
    \/ MonitorBuilderNew
    \/ \E m \in MonitorIds : Listen(m)
    \/ \E a \in ActionValues : Uevent(<<1>>, a)
    \/ \E m \in MonitorIds : MonitorSocketNext(m)
    \/ EventEventType
    \/ DeviceDrop

SpecEvent == Init /\ [][NextEvent]_vars

----------------------------------------------------------------------------
(* Properties of the handles (Spec). *)

\* The caller holds an Enumerator, a Devices iterator, a MonitorBuilder or
\* a MonitorSocket.
DerivedExists ==
    \/ \E e \in EnumerateIds : enumerators[e] >= 1
    \/ \E i \in DevicesIds : devices[i].enumerator # 0
    \/ \E m \in MonitorIds : builders[m] >= 1 \/ sockets[m] >= 1

\* C1: in every reachable state, whatever the order of creates, clones and
\* drops (the caller's own Context dropped first included), the udev
\* context has a reference count of at least 1 while an Enumerator, a
\* Devices iterator, a MonitorBuilder or a MonitorSocket exists.
C1_ContextOpenWhileDerived == DerivedExists => udev_refs >= 1

\* The caller has dropped every Context of its own; a Devices iterator
\* outlives its Enumerator and a MonitorSocket is still held.
C1_Witness ==
    /\ contexts = 0
    /\ \A e \in EnumerateIds : enumerators[e] = 0
    /\ \E i \in DevicesIds : devices[i].enumerator # 0
    /\ \E m \in MonitorIds : sockets[m] >= 1
    /\ udev_refs >= 1

----------------------------------------------------------------------------
(* Properties of the monitor (SpecMonitor). *)

FilterOps == {"MonitorBuilder::match_subsystem",
              "MonitorBuilder::match_subsystem_devtype",
              "MonitorBuilder::match_tag"}

\* C2: a monitor is listened on at most once; once listen() has been
\* called on it no MonitorBuilder of it is left, so no filter-adding
\* operation and no second listen() can be applied to it; a MonitorSocket
\* exists only for a monitor that was listened on once and is receiving;
\* and a filter-adding operation that has just run ran on a monitor that
\* was not listened on.
C2_BuilderConsumedByListen ==
    /\ \A m \in MonitorIds :
          /\ monitors[m].listens <= 1
          /\ monitors[m].listens = 1 => builders[m] = 0
          /\ builders[m] <= 1
          /\ sockets[m] >= 1 => monitors[m].listens = 1 /\ monitors[m].receiving
    /\ last.op \in FilterOps => monitors[last.obj].listens = 0

\* A monitor that got a filter while Building and is now Listening, with
\* two MonitorSockets.
C2_Witness ==
    \E m \in MonitorIds :
        /\ sockets[m] = 2
        /\ monitors[m].listens = 1
        /\ monitors[m].filters # <<>>

\* C3: a next() that has just returned made exactly one foreign call, the
\* receive; when the receive found nothing pending it returned None; when
\* the receive took a datagram it returned Some of the Device decoded from
\* that datagram.
C3_NextReceivesOnce ==
    last.op = "MonitorSocket::next" =>
        /\ last.ffi = <<"udev_monitor_receive_device">>
        /\ last.recv = "would_block" =>
              ~last.some /\ last.item = NoDevice /\ last.dgram = NoDatagram
        /\ last.recv = "received" =>
              /\ last.some
              /\ last.dgram # NoDatagram
              /\ last.item = Decode(last.dgram)

\* next() has returned the event of the second uevent of the kernel.
C3_Witness ==
    /\ last.op = "MonitorSocket::next"
    /\ last.recv = "received"
    /\ last.some
    /\ last.item.seqnum = 2

\* C4: a step of next() on a socket on which next() has returned None
\* before, and that takes a datagram which has arrived since, returns the
\* event of that datagram.
C4_NoneIsNotTerminal ==
    [][\A m \in MonitorIds :
          (/\ monitors[m].none_seen
           /\ monitors[m].queue # <<>>
           /\ monitors'[m].queue = Tail(monitors[m].queue)
           /\ last'.op = "MonitorSocket::next"
           /\ last'.recv = "received")
          => /\ last'.some
             /\ last'.item = Decode(Head(monitors[m].queue))]_vars

\* next() returned an event on a socket that had returned None before.
C4_Witness ==
    /\ last.op = "MonitorSocket::next"
    /\ last.some
    /\ monitors[last.obj].none_seen

\* What next() returns when the receive finds nothing pending.
WouldBlock ==
    [recv |-> "would_block", ptr |-> NoDevice, dgram |-> NoDatagram, queue |-> <<>>]

\* C5: a next() whose receive failed returned None and no error, the very
\* result next() returns when no datagram is available.
C5_ReceiveFailureIsNone ==
    (last.op = "MonitorSocket::next" /\ last.recv = "failed") =>
        LET wb == MonitorSocket_next(monitors[last.obj], WouldBlock)
        IN  /\ last.res = Ok
            /\ ~last.some
            /\ <<last.res, last.some, last.item>> = <<wb.res, wb.some, wb.item>>

\* A receive failed on a datagram it had taken off the socket.
C5_Witness ==
    /\ last.op = "MonitorSocket::next"
    /\ last.recv = "failed"
    /\ last.dgram # NoDatagram
    /\ ~last.some

----------------------------------------------------------------------------
(* Properties of the Devices iterator (SpecEnum). *)

\* The syspaths named by a list of entries.
Names(list) == [k \in 1..Len(list) |-> ptr_to_os_str_unchecked(list[k])]

PulledNames(it) == [k \in 1..Len(it.pulled) |-> it.pulled[k].name]

YieldedPaths(it) == [k \in 1..Len(it.yielded) |-> it.yielded[k].syspath]

Succeeded(entry) == entry.ok

IsPrefix(a, b) == Len(a) <= Len(b) /\ SubSeq(b, 1, Len(a)) = a

RECURSIVE IsSubsequence(_, _)
IsSubsequence(a, b) ==
    IF a = <<>> THEN TRUE
    ELSE IF b = <<>> THEN FALSE
    ELSE IF Head(a) = Head(b) THEN IsSubsequence(Tail(a), Tail(b))
    ELSE IsSubsequence(a, Tail(b))

\* C6: an iterator that has reached the end looked up every entry of its
\* scan, one after the other, and yielded exactly those whose lookup
\* succeeded.
C6_SkipsFailedLookups ==
    \A i \in DevicesIds :
        (devices[i].enumerator # 0 /\ devices[i].entry = NULL) =>
            /\ PulledNames(devices[i]) = Names(devices[i].scan)
            /\ YieldedPaths(devices[i]) =
                  PulledNames([pulled |-> SelectSeq(devices[i].pulled, Succeeded)])

\* C7: the devices an iterator has yielded are a subsequence of the list of
\* its scan, and a parent comes before its child.
C7_ScanOrderPreserved ==
    \A i \in DevicesIds :
        LET y == YieldedPaths(devices[i])
        IN  /\ IsSubsequence(y, Names(devices[i].scan))
            /\ \A j, k \in 1..Len(y) :
                  (HasParent(y[k]) /\ y[j] = Parent(y[k])) => j < k

\* C8: every Device yielded by an iterator whose list was never freed under
\* it passes the filters its scan was made with.
C8_YieldedMatchFilters ==
    \A i \in DevicesIds :
        ~devices[i].dangling =>
            \A k \in 1..Len(devices[i].yielded) :
                Matches(devices[i].yielded[k], devices[i].filters)

\* C9: whatever scans are made after its own, the entries an iterator has
\* looked up so far are the first entries of its own scan.
C9_OwnCursor ==
    \A i \in DevicesIds :
        devices[i].enumerator # 0 =>
            IsPrefix(PulledNames(devices[i]), Names(devices[i].scan))

----------------------------------------------------------------------------
(* Properties of the string inputs (SpecInput). *)

StringOps == {"Enumerator::match_subsystem", "Enumerator::match_attribute",
              "Enumerator::match_sysname", "Enumerator::match_property",
              "Enumerator::match_tag", "Enumerator::nomatch_subsystem",
              "Enumerator::nomatch_attribute", "Enumerator::add_syspath",
              "MonitorBuilder::match_subsystem",
              "MonitorBuilder::match_subsystem_devtype",
              "MonitorBuilder::match_tag",
              "Context::device_from_syspath",
              "Context::device_from_subsystem_sysname",
              "Context::device_from_device_id"}

NulArgument(ret) ==
    /\ ret.op \in StringOps
    /\ \E k \in 1..Len(ret.args) : HasNul(ret.args[k])

\* C10: a step of a filter-adding or lookup operation one of whose string
\* arguments has an embedded NUL returns the EINVAL error, makes no foreign
\* call, and changes neither the filters of any object nor any handle.
C10_EmbeddedNulRejected ==
    [][NulArgument(last') =>
          /\ last'.res = Err(EINVAL)
          /\ last'.ffi = <<>>
          /\ UNCHANGED <<udev_refs, contexts, device_objs, enumerates, enumerators,
                         devices, monitors, builders, sockets, sysfs,
                         kernel_seq>>]_vars

\* match_attribute was given a value with an embedded NUL on an Enumerator
\* that already has a filter.
C10_Witness ==
    /\ last.op = "Enumerator::match_attribute"
    /\ ~HasNul(last.args[1])
    /\ HasNul(last.args[2])
    /\ last.res = Err(EINVAL)
    /\ enumerates[last.obj].filters # <<>>

----------------------------------------------------------------------------
(* Properties of the filters of an Enumerator (SpecFilter). *)

\* The kind of filter each filter-adding operation of an Enumerator adds.
FilterKind ==
    "Enumerator::match_is_initialized" :> "match_is_initialized" @@
    "Enumerator::match_subsystem" :> "match_subsystem" @@
    "Enumerator::match_attribute" :> "match_attribute" @@
    "Enumerator::match_sysname" :> "match_sysname" @@
    "Enumerator::match_property" :> "match_property" @@
    "Enumerator::match_tag" :> "match_tag" @@
    "Enumerator::match_parent" :> "match_parent" @@
    "Enumerator::nomatch_subsystem" :> "nomatch_subsystem" @@
    "Enumerator::nomatch_attribute" :> "nomatch_attribute" @@
    "Enumerator::add_syspath" :> "add_syspath"

\* The one filter a call asks for: its kind and the arguments it was given.
RequestedFilter(ret) ==
    Filter(FilterKind[ret.op],
           IF Len(ret.args) >= 1 THEN ret.args[1] ELSE <<>>,
           IF Len(ret.args) >= 2 THEN ret.args[2] ELSE <<>>)

----------------------------------------------------------------------------
(* Properties of listen and scan_devices (Spec). *)

\* C12: a step of listen() or of scan_devices() returns Ok exactly when
\* the status of its foreign call is 0.  On a nonzero status it returns the
\* error of that very status; listen() then gives no MonitorSocket and
\* leaves neither a builder nor a receiving monitor behind, and
\* scan_devices() gives no Devices iterator.  On status 0 listen() gives
\* one MonitorSocket of a receiving monitor and scan_devices() one Devices
\* iterator.
C12_StatusDecides ==
    [][/\ last'.op \in {"MonitorBuilder::listen", "Enumerator::scan_devices"} =>
            /\ (last'.res = Ok) <=> (last'.status = 0)
            /\ last'.status # 0 => last'.res = Err(last'.status)
       /\ last'.op = "MonitorBuilder::listen" =>
            IF last'.status = 0
            THEN /\ sockets'[last'.obj] = sockets[last'.obj] + 1
                 /\ monitors'[last'.obj].receiving
            ELSE /\ sockets'[last'.obj] = 0
                 /\ builders'[last'.obj] = 0
                 /\ sockets' = sockets
                 /\ ~monitors'[last'.obj].receiving
                 /\ monitors'[last'.obj].refs = 0
       /\ last'.op = "Enumerator::scan_devices" =>
            IF last'.status = 0
            THEN \E i \in DevicesIds :
                    /\ devices[i].enumerator = 0
                    /\ devices'[i].enumerator = last'.obj
            ELSE devices' = devices /\ enumerates' = enumerates]_vars

\* listen() has failed on a builder while a Devices iterator of an earlier
\* scan is held.
C12_Witness ==
    /\ last.op = "MonitorBuilder::listen"
    /\ last.status # 0
    /\ last.res = Err(last.status)
    /\ sockets[last.obj] = 0
    /\ \E i \in DevicesIds : devices[i].enumerator # 0

----------------------------------------------------------------------------
(* Properties of the events of a monitor (SpecMonitor). *)

\* Whether a Device is one the filters ask for: its subsystem (and devtype,
\* where one is given) is that of one of the subsystem filters, if there
\* are any, and it has the tag of one of the tag filters, if there are any.
EventMatches(dev, filters) ==
    LET subs == {f \in OfKind(filters, "subsystem_devtype") :
                    /\ f.a = dev.subsystem
                    /\ f.b \in {<<>>, Devtype(dev.syspath)}}
        tags == {f \in OfKind(filters, "tag") : f.a \in Tags(dev.syspath)}
    IN  /\ OfKind(filters, "subsystem_devtype") = {} \/ subs # {}
        /\ OfKind(filters, "tag") = {} \/ tags # {}

\* C13: the filters of a monitor that has a MonitorSocket are those it had
\* when listen() was called, and an Event that next() has just returned is
\* of a Device that matches them (any Device when there are none).
C13_EventsMatchFilters ==
    /\ \A m \in MonitorIds :
          sockets[m] >= 1 => monitors[m].filters = monitors[m].at_listen
    /\ (last.op = "MonitorSocket::next" /\ last.some) =>
          EventMatches(last.item, monitors[last.obj].at_listen)

\* next() has returned the event of a tagged device, the second uevent of
\* the kernel, on a monitor with a tag filter.
C13_Witness ==
    /\ last.op = "MonitorSocket::next"
    /\ last.some
    /\ OfKind(monitors[last.obj].at_listen, "tag") # {}
    /\ Tags(last.item.syspath) # {}
    /\ last.item.seqnum = 2

----------------------------------------------------------------------------
(* Properties of the handles of a monitor (Spec). *)

\* C14: while a MonitorSocket of a monitor is held, the foreign monitor,
\* and with it its socket and descriptor, is alive and receiving, and it
\* holds one reference per MonitorSocket; the foreign monitor is released
\* exactly when no MonitorBuilder and no MonitorSocket of it is left.
C14_DescriptorOpenWhileHeld ==
    \A m \in MonitorIds :
        /\ sockets[m] >= 1 =>
              /\ monitors[m].refs = sockets[m]
              /\ monitors[m].receiving
        /\ (monitors[m].refs = 0) <=> (builders[m] = 0 /\ sockets[m] = 0)
        /\ monitors[m].refs = 0 => monitors[m] = FreeMonitor

\* One of two MonitorSockets has just been dropped and the other still
\* has the receiving monitor.
C14_Witness ==
    /\ last.op = "MonitorSocket::drop"
    /\ sockets[last.obj] = 1
    /\ monitors[last.obj].refs = 1
    /\ monitors[last.obj].receiving

----------------------------------------------------------------------------
(* The reference count of the context (Spec). *)

RECURSIVE SumOver(_, _)
SumOver(f, S) ==
    IF S = {} THEN 0
    ELSE LET x == CHOOSE y \in S : TRUE
         IN  f[x] + SumOver(f, S \ {x})

\* The handles that hold the context: the caller's Contexts, and one per
\* Enumerator, per Devices iterator (its enumerator field), per
\* MonitorBuilder and per MonitorSocket.
ContextHolders ==
    contexts
    + SumOver(enumerators, EnumerateIds)
    + Cardinality({i \in DevicesIds : devices[i].enumerator # 0})
    + SumOver(builders, MonitorIds)
    + SumOver(sockets, MonitorIds)

\* C15: the reference count of the udev context equals the number of
\* handles that hold it, so it is 0, the context destroyed, exactly when
\* the last of them has been dropped.
C15_RefcountEqualsHolders ==
    /\ udev_refs = ContextHolders
    /\ (udev_refs = 0) <=> (contexts = 0 /\ ~DerivedExists)

\* Every handle has been dropped, a MonitorSocket last, and the context is
\* destroyed.
C15_Witness ==
    /\ last.op = "MonitorSocket::drop"
    /\ ContextHolders = 0
    /\ udev_refs = 0

----------------------------------------------------------------------------
(* The type of an event (SpecEvent). *)

\* C16: event_type gives Add, Change, Remove, Bind, Unbind exactly for the
\* ACTION values "add", "change", "remove", "bind", "unbind", and Unknown
\* for every other value and for a device without the property.
C16_EventTypeExact ==
    last.op = "Event::event_type" =>
        LET a == last.item.action
            t == last.etype
        IN  /\ (t = "Add") <=> (a = "add")
            /\ (t = "Change") <=> (a = "change")
            /\ (t = "Remove") <=> (a = "remove")
            /\ (t = "Bind") <=> (a = "bind")
            /\ (t = "Unbind") <=> (a = "unbind")
            /\ (t = "Unknown") <=> (a \notin {"add", "change", "remove", "bind", "unbind"})
            /\ t \in {"Add", "Change", "Remove", "Bind", "Unbind", "Unknown"}

\* event_type has been called on an event whose ACTION is "Add".
C16_Witness ==
    /\ last.op = "Event::event_type"
    /\ last.item.action = "Add"
    /\ last.etype = "Unknown"

----------------------------------------------------------------------------
(* The Devices iterator is single-pass (SpecEnum). *)

\* C17: an iterator looks up each entry of its list at most once: it makes
\* no more lookups than its scan has entries, and no two of its lookups are
\* of the same entry.
C17_EachEntryOnce ==
    \A i \in DevicesIds :
        devices[i].enumerator # 0 =>
            LET names == PulledNames(devices[i])
            IN  /\ Len(names) <= Len(devices[i].scan)
                /\ \A j, k \in 1..Len(names) : j # k => names[j] # names[k]

----------------------------------------------------------------------------
(* MonitorSocket::into_raw (Spec). *)

\* C18: a step of into_raw leaves the reference count of the foreign
\* monitor as it was, so the monitor it returns is alive after the call,
\* its socket still receiving.
C18_IntoRawKeepsReference ==
    [][last'.op = "MonitorSocket::into_raw" =>
          /\ monitors'[last'.obj].refs = monitors[last'.obj].refs
          /\ monitors'[last'.obj].refs >= 1
          /\ monitors'[last'.obj].receiving]_vars

----------------------------------------------------------------------------
(* The sockets of one monitor share its queue (SpecMonitor). *)

\* C19: the Events yielded by the sockets of one monitor, in call order,
\* have strictly increasing sequence numbers, each that of a uevent the
\* kernel has sent: no datagram is yielded twice, to the same socket or to
\* two of them, and the events come in the order the datagrams arrived.
C19_SharedQueueYieldsOnce ==
    \A m \in MonitorIds :
        LET ev == monitors[m].events
        IN  /\ \A k \in 1..Len(ev) : ev[k].seqnum \in 1..kernel_seq
            /\ \A j, k \in 1..Len(ev) : j < k => ev[j].seqnum < ev[k].seqnum
            /\ \A k \in 1..Len(ev), d \in 1..Len(monitors[m].queue) :
                  ev[k].seqnum < monitors[m].queue[d].seqnum

\* Two sockets of one monitor have each yielded an Event, the second
\* socket first.
C19_Witness ==
    \E m \in MonitorIds :
        LET ev == monitors[m].events
        IN  /\ sockets[m] = 2
            /\ Len(ev) >= 2
            /\ ev[1].by = 2
            /\ ev[2].by = 1
            /\ last.op = "MonitorSocket::next"
            /\ last.some

----------------------------------------------------------------------------
(* clear_filters (SpecMonitor). *)

\* The filter a filter-adding operation of the MonitorBuilder asks for.
MonitorRequestedFilter(ret) ==
    IF ret.op = "MonitorBuilder::match_tag"
    THEN Filter("tag", ret.args[1], <<>>)
    ELSE Filter("subsystem_devtype", ret.args[1],
                IF Len(ret.args) >= 2 THEN ret.args[2] ELSE <<>>)

\* C20: clear_filters is a step of a MonitorBuilder, never of a monitor that
\* is receiving; when it succeeds the monitor has no filter left, when it
\* fails the filters stay; a filter-adding step appends its filter when it
\* succeeds; and a listen that succeeds puts in force exactly the filters
\* the monitor then has, those added since the last clear that succeeded.
C20_ClearRemovesEveryFilter ==
    [][kernel_seq' = kernel_seq =>
          /\ last'.op = "MonitorBuilder::clear_filters" =>
                /\ builders[last'.obj] >= 1
                /\ sockets[last'.obj] = 0
                /\ ~monitors[last'.obj].receiving
                /\ ~monitors'[last'.obj].receiving
                /\ monitors'[last'.obj].filters =
                      IF last'.res = Ok THEN <<>> ELSE monitors[last'.obj].filters
          /\ last'.op \in {"MonitorBuilder::match_subsystem",
                           "MonitorBuilder::match_subsystem_devtype",
                           "MonitorBuilder::match_tag"} =>
                monitors'[last'.obj].filters =
                      IF last'.res = Ok
                      THEN Append(monitors[last'.obj].filters, MonitorRequestedFilter(last'))
                      ELSE monitors[last'.obj].filters
          /\ (last'.op = "MonitorBuilder::listen" /\ last'.res = Ok) =>
                /\ monitors'[last'.obj].filters = monitors[last'.obj].filters
                /\ monitors'[last'.obj].at_listen = monitors[last'.obj].filters
                /\ monitors'[last'.obj].receiving]_vars

\* clear_filters has succeeded on a MonitorBuilder that had a filter, and
\* the monitor has none.
C20_Witness ==
    /\ last.op = "MonitorBuilder::clear_filters"
    /\ last.res = Ok
    /\ last.before # <<>>
    /\ builders[last.obj] = 1
    /\ monitors[last.obj].filters = <<>>

====
